---------------------------- MODULE Spec2Model ----------------------------
(***************************************************************************)
(* gosfs (src/main.go): a small HTTP file server.  The model covers the   *)
(* request handlers (index, upload, healthz), the router in front of      *)
(* them, and the startup / signal / graceful-shutdown state machine.      *)
(*                                                                         *)
(* Paths are sequences of segments: "/tmp/gosfs/a.txt" is                  *)
(* <<"tmp","gosfs","a.txt">>.  The disk is a function from absolute paths  *)
(* to nodes.  An http.ResponseWriter is a record of what has been written  *)
(* to it so far.                                                           *)
(***************************************************************************)
EXTENDS Integers, Sequences, FiniteSets, TLC

(***************************************************************************)
(* Bounds of the model and program constants.                             *)
(***************************************************************************)
\* longest request path (in segments) the index handler is driven with
MaxPathLen == 4
\* most file parts in one upload request
MaxParts == 2
\* -max-size flag (main.go:240), scaled down: sizes range over 1..MaxUploadSize+1
MaxUploadSize == 1
\* most requests the listener accepts in one run of the process
MaxRequests == 2
\* latest clock reading before the grace timer of the drain is started
MaxStart == 1

\* latest clock reading of the runs of the composed pipeline (two base-36
\* digits from 36 on)
MaxClock == 37
\* grace period of the drain, in clock ticks (seconds): main.go:208
Grace == 5

\* -root-dir flag, main.go:237
RootDir == <<"tmp", "gosfs">>

(***************************************************************************)
(* int64 byte counts (os.FileInfo.Size, the argument of formatBytes,       *)
(* main.go:50).  A count is the sequence of its base-1000 digits, least    *)
(* significant first, without leading zero digits: 1000000 is <<0, 0, 1>>. *)
(***************************************************************************)
\* the int64 of a small natural number
RECURSIVE Int64(_)
Int64(n) == IF n < 1000 THEN <<n>> ELSE <<n % 1000>> \o Int64(n \div 1000)

\* math.MaxInt64 = 9,223,372,036,854,775,807
MaxInt64 == <<807, 775, 854, 36, 372, 223, 9>>

\* a <= b
RECURSIVE Leq64(_, _)
Leq64(a, b) ==
    IF Len(a) # Len(b) THEN Len(a) < Len(b)
    ELSE IF Len(a) = 0 THEN TRUE
    ELSE IF a[Len(a)] # b[Len(b)] THEN a[Len(a)] < b[Len(b)]
    ELSE Leq64(SubSeq(a, 1, Len(a) - 1), SubSeq(b, 1, Len(b) - 1))

\* n >= unit and n / unit for unit = 1000 (main.go:51), div * unit for div > 0
GeUnit(n) == Len(n) >= 2
DivUnit(n) == IF Len(n) >= 2 THEN Tail(n) ELSE <<0>>
MulUnit(div) == <<0>> \o div

(***************************************************************************)
(* Disk.                                                                   *)
(***************************************************************************)
NoNode == [kind |-> "none", size |-> <<0>>, data |-> "-"]
DirNode == [kind |-> "dir", size |-> <<0>>, data |-> "-"]
FileNode(size, data) == [kind |-> "file", size |-> Int64(size), data |-> data]

\* the tree the server starts on: the root directory exists (os.MkdirAll,
\* main.go:247) and holds a file and a subdirectory; /etc is outside it.
InitDisk ==
    ( <<>>                         :> DirNode
   @@ <<"tmp">>                    :> DirNode
   @@ <<"tmp", "gosfs">>           :> DirNode
   @@ <<"tmp", "gosfs", "a.txt">>  :> FileNode(1, "a")
   @@ <<"tmp", "gosfs", "sub">>    :> DirNode
   @@ <<"tmp", "gosfs", "sub", "b.txt">> :> FileNode(1, "b")
   @@ <<"etc">>                    :> DirNode
   @@ <<"etc", "passwd">>          :> FileNode(1, "secret") )

\* os.Stat: the node at path, NoNode when the path does not exist
Stat(disk, path) == IF path \in DOMAIN disk THEN disk[path] ELSE NoNode

IsPrefix(p, q) == Len(p) <= Len(q) /\ SubSeq(q, 1, Len(p)) = p

InsideRoot(path) == IsPrefix(RootDir, path)

Parent(path) == SubSeq(path, 1, Len(path) - 1)

(***************************************************************************)
(* path/filepath.                                                          *)
(***************************************************************************)
RECURSIVE CleanFrom(_, _)
CleanFrom(segs, acc) ==
    IF segs = <<>> THEN acc
    ELSE LET s == Head(segs) IN
         IF s = ".."
         THEN CleanFrom(Tail(segs),
                        IF acc = <<>> THEN <<>> ELSE SubSeq(acc, 1, Len(acc) - 1))
         ELSE CleanFrom(Tail(segs), Append(acc, s))

\* filepath.Clean of a rooted path: ".." removes the segment before it, and
\* is dropped at the root
Clean(segs) == CleanFrom(segs, <<>>)

\* filepath.Join(a, b): the elements joined, then cleaned
Join(a, b) == Clean(a \o b)

HasDotDot(segs) == \E i \in 1..Len(segs) : segs[i] = ".."

(***************************************************************************)
(* http.ResponseWriter.                                                    *)
(***************************************************************************)
\* one piece of a response body
Chunk(t, path, n, files) == [t |-> t, path |-> path, n |-> n, files |-> files]

\* nothing written yet (status 0: no header sent,
\* and no X-Request-Id header set: xrid is the empty string)
NewWriter ==
    [status |-> 0, body |-> <<>>, location |-> <<"-">>, xrid |-> <<>>,
     panicked |-> FALSE]

\* w.WriteHeader(code): the first call fixes the status, later ones are ignored
WriteHeader(w, code) == IF w.status = 0 THEN [w EXCEPT !.status = code] ELSE w

\* w.Write(data): sends the header with 200 if none was sent, appends to the body
Write(w, chunk) ==
    LET w1 == WriteHeader(w, 200) IN [w1 EXCEPT !.body = Append(w1.body, chunk)]

\* http.Error(w, msg, code): WriteHeader(code), then the message as body
HttpError(w, code) == Write(WriteHeader(w, code), Chunk("error", <<>>, code, <<>>))

\* http.Redirect(w, r, url, code): Location header and status
Redirect(w, url, code) ==
    IF w.status = 0 THEN [w EXCEPT !.status = code, !.location = url] ELSE w

\* the server completes a response whose handler wrote nothing with 200
Finish(w) == IF w.panicked THEN w ELSE WriteHeader(w, 200)

(***************************************************************************)
(* Requests.  One record shape for every request: the fields a handler     *)
(* reads.  referer and origin are URLs as segment sequences                *)
(* ("http://h/sub" is <<"http:", "h", "sub">>); parts are the file parts   *)
(* of field "files" of the multipart form; formOK is whether               *)
(* ParseMultipartForm produced a form; reqid is the X-Request-Id header    *)
(* of the request, a string as a sequence of characters (<<>>: absent).    *)
(***************************************************************************)
Request(method, path, referer, origin, formOK, parts) ==
    [method |-> method, path |-> path, referer |-> referer, origin |-> origin,
     formOK |-> formOK, parts |-> parts, reqid |-> <<>>]

\* r carrying the header X-Request-Id: id
WithRequestID(r, id) == [r EXCEPT !.reqid = id]

Get(path) == Request("GET", path, <<>>, <<>>, FALSE, <<>>)

\* a file part: fault is what goes wrong with it ("none", "open": fh.Open
\* fails, "copy": io.Copy fails)
Part(name, size, fault) == [name |-> name, size |-> size, fault |-> fault]

\* what a handler invocation did: the response, the disk it leaves, the file
\* system calls it made in order, the health value it loaded (-1: none), the
\* log lines written and the handlers entered, in order
Outcome(w, disk, ops, h) ==
    [w |-> w, disk |-> disk, ops |-> ops, h |-> h, log |-> <<>>, entered |-> <<>>]

Op(name, path) == <<name, path>>

(***************************************************************************)
(* formatBytes, main.go:50-62.  The label is <<value, unit>>: below 1000   *)
(* the count with unit "B" ("%d B"); otherwise the unit letter, and as     *)
(* value the pair <<b, div>> of the quotient float64(b)/float64(div) that  *)
(* "%.1f" renders.                                                         *)
(***************************************************************************)
UnitLetters == <<"k", "M", "G", "T", "P", "E">>

formatLoop_Once(n, div, exp) == <<div, exp>>

\* the for loop of main.go:56-59 from the state n, div, exp on
RECURSIVE formatLoop(_, _, _)
formatLoop(n, div, exp) ==
    IF GeUnit(n) THEN formatLoop(DivUnit(n), MulUnit(div), exp + 1)
    ELSE <<div, exp>>

\* "kMGTPE"[exp] panics (index out of range) when exp is beyond the letters
formatBytes(b) ==
    IF ~GeUnit(b) THEN <<b[1], "B">>
    ELSE LET de == formatLoop(DivUnit(b), Int64(1000), 0) IN
         <<<<b, de[1]>>,
           IF de[2] < Len(UnitLetters) THEN UnitLetters[de[2] + 1] ELSE "panic">>

(***************************************************************************)
(* listDir, main.go:137-159.                                               *)
(***************************************************************************)
\* every name a directory entry can have, in the order ioutil.ReadDir
\* returns entries (sorted by name)
NameOrder == <<"a.txt", "b.txt", "etc", "gosfs", "new.txt", "passwd", "sub", "tmp">>

\* ioutil.ReadDir(root): the names of the immediate children, sorted
ReadDirNames(disk, root) ==
    SelectSeq(NameOrder, LAMBDA nm : Append(root, nm) \in DOMAIN disk)

\* one File of the listing; Link is never assigned by listDir
FileEntry(disk, root, nm) ==
    LET node == disk[Append(root, nm)] IN
    IF node.kind = "dir"
    THEN [Name |-> <<nm, "/">>, Size |-> <<0, "-">>, ModTime |-> "mtime", Link |-> <<>>]
    ELSE [Name |-> <<nm>>, Size |-> formatBytes(node.size), ModTime |-> "mtime",
          Link |-> <<>>]

listDir(disk, root) ==
    IF Stat(disk, root).kind # "dir"
    THEN [err |-> TRUE, DisplayPath |-> root, Files |-> <<>>]
    ELSE LET names == ReadDirNames(disk, root) IN
         [err |-> FALSE, DisplayPath |-> root,
          Files |-> [i \in 1..Len(names) |-> FileEntry(disk, root, names[i])]]

(***************************************************************************)
(* http.ServeFile as index calls it (the name is never a directory).      *)
(***************************************************************************)
\* rejects a request whose URL path holds a ".." element with 400, otherwise
\* opens the file and streams it with status 200
ServeFile(w, r, name, disk) ==
    IF HasDotDot(r.path)
    THEN [w |-> HttpError(w, 400), ops |-> <<>>]
    ELSE [w |-> Write(w, Chunk("file", name, disk[name].size, <<disk[name].data>>)),
          ops |-> <<Op("open", name)>>]

(***************************************************************************)
(* controller.index, main.go:64-91.                                        *)
(***************************************************************************)
index(w, r, disk) ==
    IF r.path = <<"favicon.io">>
    THEN Outcome(w, disk, <<>>, -1)
    ELSE LET path == Join(RootDir, r.path)
             file == Stat(disk, path)
             sf   == IF file.kind = "file"
                     THEN ServeFile(w, r, path, disk)
                     ELSE [w |-> w, ops |-> <<>>]
             \* no return after ServeFile: listDir runs for every request
             dir  == listDir(disk, path)
             ops  == <<Op("stat", path)>> \o sf.ops \o <<Op("readdir", path)>>
         IN IF dir.err
            THEN Outcome(HttpError(sf.w, 500), disk, ops, -1)
            ELSE Outcome(Write(sf.w, Chunk("listing", dir.DisplayPath, 0, dir.Files)),
                         disk, ops, -1)

(***************************************************************************)
(* controller.upload, main.go:93-135.                                      *)
(***************************************************************************)
\* strings.TrimPrefix(s, prefix)
TrimPrefix(s, prefix) ==
    IF IsPrefix(prefix, s) THEN SubSeq(s, Len(prefix) + 1, Len(s)) ELSE s

Destination_RootOnly(r, fh) == Join(RootDir, <<fh.name>>)

\* the name upload opens for a part: main.go:115-117
Destination(r, fh) == Join(RootDir, TrimPrefix(r.referer, r.origin) \o <<fh.name>>)

\* os.OpenFile(name, O_WRONLY|O_CREATE|O_TRUNC) succeeds when the parent is
\* an existing directory and the name is not a directory
CanCreate(disk, name) ==
    /\ name # <<>>
    /\ Stat(disk, Parent(name)).kind = "dir"
    /\ Stat(disk, name).kind # "dir"

\* the disk with file name holding node (created or replaced)
WriteFile(disk, name, node) == (name :> node) @@ disk

TooLarge_Never(fh) == fh.size > MaxUploadSize + 1

\* the size check of main.go:100
TooLarge(fh) == fh.size > MaxUploadSize

\* the range loop of main.go:99-132 from part i on, then the redirect
RECURSIVE uploadLoop(_, _, _, _, _)
uploadLoop(r, i, w, disk, ops) ==
    IF i > Len(r.parts)
    THEN Outcome(Redirect(w, r.referer, 302), disk, ops, -1)
    ELSE LET fh  == r.parts[i]
             dst == Destination(r, fh)
         IN IF TooLarge(fh)
            THEN Outcome(WriteHeader(w, 413), disk, ops, -1)
            ELSE IF fh.fault = "open"
            THEN Outcome(HttpError(w, 400), disk, ops, -1)
            ELSE IF ~CanCreate(disk, dst)
            THEN Outcome(HttpError(w, 500), disk,
                         Append(ops, Op("create-failed", dst)), -1)
            ELSE IF fh.fault = "copy"
            THEN Outcome(HttpError(w, 500),
                         WriteFile(disk, dst, FileNode(0, "partial")),
                         Append(ops, Op("create", dst)), -1)
            ELSE uploadLoop(r, i + 1, w,
                            WriteFile(disk, dst, FileNode(fh.size, "new")),
                            Append(ops, Op("create", dst)))

\* r.MultipartForm is nil when ParseMultipartForm failed: main.go:98 then
\* dereferences nil and the handler panics (net/http recovers the panic and
\* drops the connection without a response)
upload(w, r, disk) ==
    IF ~r.formOK
    THEN Outcome([w EXCEPT !.panicked = TRUE], disk, <<>>, -1)
    ELSE uploadLoop(r, 1, w, disk, <<>>)

(***************************************************************************)
(* controller.healthz, main.go:161-167.  h is the value atomic.LoadInt64   *)
(* returned, t the clock reading time.Since uses.                          *)
(***************************************************************************)
healthz_Inverted(w, h, t) ==
    IF h # 0
    THEN Outcome(WriteHeader(w, 503), <<>>, <<>>, h)
    ELSE Outcome(Write(w, Chunk("uptime", <<>>, t - h, <<>>)), <<>>, <<>>, h)

healthz(w, h, t) ==
    IF h = 0
    THEN Outcome(WriteHeader(w, 503), <<>>, <<>>, h)
    ELSE Outcome(Write(w, Chunk("uptime", <<>>, t - h, <<>>)), <<>>, <<>>, h)

(***************************************************************************)
(* The router of main.go:257-260 (http.ServeMux): a request whose path is  *)
(* not in canonical form is answered with a redirect to the cleaned path   *)
(* without calling a handler, except for method CONNECT, whose path is     *)
(* matched as it is. "/upload" and "/healthz" match exactly, "/" the rest. *)
(***************************************************************************)
router(w, r, disk, h, t) ==
    IF r.method # "CONNECT" /\ Clean(r.path) # r.path
    THEN Outcome(Redirect(w, Clean(r.path), 301), disk, <<>>, -1)
    ELSE IF r.path = <<"upload">> THEN upload(w, r, disk)
    ELSE IF r.path = <<"healthz">>
    THEN [healthz(w, h, t) EXCEPT !.disk = disk]
    ELSE index(w, r, disk)

\* which handler the router calls for r ("redirect": none)
Route(r) ==
    IF r.method # "CONNECT" /\ Clean(r.path) # r.path THEN "redirect"
    ELSE IF r.path = <<"upload">> THEN "upload"
    ELSE IF r.path = <<"healthz">> THEN "healthz"
    ELSE "index"

(***************************************************************************)
(* The middlewares, main.go:169-191 and :220-228.  A handler is the        *)
(* sequence of the wrappers around the router, outermost first:            *)
(* <<"logging", "router">> is logging(router).                             *)
(***************************************************************************)
Digits36 ==
    <<"0", "1", "2", "3", "4", "5", "6", "7", "8", "9", "a", "b", "c", "d", "e",
      "f", "g", "h", "i", "j", "k", "l", "m", "n", "o", "p", "q", "r", "s", "t",
      "u", "v", "w", "x", "y", "z">>

\* strconv.FormatInt(n, 36) for n >= 0
RECURSIVE FormatInt36(_)
FormatInt36(n) ==
    IF n < 36 THEN <<Digits36[n + 1]>>
    ELSE Append(FormatInt36(n \div 36), Digits36[(n % 36) + 1])

\* c.nextRequestID, main.go:255, at clock reading t
nextRequestID(t) == FormatInt36(t)

\* the wrapper mw around handler hdlr
Wrap(mw, hdlr) == <<mw>> \o hdlr

\* middlewares.apply, main.go:223-228: mws[1:].apply(mws[0](hdlr))
RECURSIVE apply(_, _)
apply(mws, hdlr) ==
    IF Len(mws) = 0 THEN hdlr
    ELSE apply(Tail(mws), Wrap(Head(mws), hdlr))

LogLine_Early(w, r) ==
    [id |-> IF NewWriter.xrid = <<>> THEN <<"unknown">> ELSE NewWriter.xrid,
     method |-> r.method, path |-> r.path]

\* the line logging prints, main.go:172-176
LogLine(w, r) ==
    [id |-> IF w.xrid = <<>> THEN <<"unknown">> ELSE w.xrid,
     method |-> r.method, path |-> r.path]

requestID_Fresh(r, t) == nextRequestID(t)

\* the ID tracing chooses, main.go:184-187: the X-Request-Id header of the
\* request, or a generated one when that is empty
requestID(r, t) == IF r.reqid = <<>> THEN nextRequestID(t) ELSE r.reqid

\* hdlr.ServeHTTP(w, r): tracing sets the response header and calls the
\* handler it wraps; logging calls the handler it wraps and prints its line
\* when that returns (deferred, so also when it panics)
RECURSIVE ServeHTTP(_, _, _, _, _, _)
ServeHTTP(hdlr, w, r, disk, h, t) ==
    IF Head(hdlr) = "tracing"
    THEN LET out == ServeHTTP(Tail(hdlr), [w EXCEPT !.xrid = requestID(r, t)],
                              r, disk, h, t)
         IN [out EXCEPT !.entered = <<"tracing">> \o @]
    ELSE IF Head(hdlr) = "logging"
    THEN LET out == ServeHTTP(Tail(hdlr), w, r, disk, h, t)
         IN [out EXCEPT !.entered = <<"logging">> \o @,
                        !.log = Append(@, LogLine(out.w, r))]
    ELSE LET out == router(w, r, disk, h, t)
         IN [out EXCEPT !.entered = <<"router">>]

(***************************************************************************)
(* State of the process.                                                   *)
(***************************************************************************)
VARIABLES
    main_pc,    \* where main is: "shutdown" (before main.go:271), "store"
                \* (before :272), "spawn" (before :276), "wait" (at :284),
                \* "returned"
    sd_pc,      \* where the goroutine of controller.shutdown is: "none" (not
                \* started), "waitSig" (:201), "store" (:205), "timer" (:206),
                \* "shutdown" (:212), "poll" / "wait" (inside server.Shutdown),
                \* "done" (returned, context cancelled), "fatal" (:213)
    srv,        \* the goroutine of main.go:276: "none", "spawned", "serving"
                \* (the listener accepts connections), "closed"
    healthy,    \* controller.healthy
    now,        \* the clock, in ticks
    deadline,   \* deadline of the context of main.go:208 (0: not created)
    quit,       \* the channel quit: "empty", "queued" (a signal is in it), "closed"
    ctxDone,    \* whether the context shutdown returned has been cancelled
    inflight,   \* accepted requests whose handler has not returned yet
    nAccepted,  \* number of requests accepted so far
    disk,       \* the file system
    resp,       \* the request handled last and what its handler did
    exit        \* "running", or how the process ended: "clean" (main
                \* returned), "fatal_shutdown" (:213), "fatal_listen" (:279)

vars == <<main_pc, sd_pc, srv, healthy, now, deadline, quit, ctxDone, inflight,
          nAccepted, disk, resp, exit>>

NoResp ==
    [id |-> 0, req |-> Get(<<>>), w |-> NewWriter, ops |-> <<>>, h |-> -1,
     log |-> <<>>, entered |-> <<>>]

\* the state when main reaches main.go:271
Init ==
    /\ main_pc = "shutdown"
    /\ sd_pc = "none"
    /\ srv = "none"
    /\ healthy = 0
    /\ now = 1
    /\ deadline = 0
    /\ quit = "empty"
    /\ ctxDone = FALSE
    /\ inflight = {}
    /\ nAccepted = 0
    /\ disk = InitDisk
    /\ resp = NoResp
    /\ exit = "running"

\* the signal has been received from quit by the shutdown goroutine
sigReceived == sd_pc \notin {"none", "waitSig"}

\* the shutdown goroutine has executed its store of 0 (main.go:205)
resetDone == sd_pc \notin {"none", "waitSig", "store"}

\* server.Shutdown has been called: the server is shutting down
inShutdown == sd_pc \in {"poll", "wait", "done", "fatal"}

(***************************************************************************)
(* main, main.go:271-286.                                                  *)
(***************************************************************************)
\* :271 c.shutdown: signal.Notify registers quit and the goroutine starts
MainShutdown ==
    /\ exit = "running" /\ main_pc = "shutdown"
    /\ main_pc' = "store"
    /\ sd_pc' = "waitSig"
    /\ UNCHANGED <<srv, healthy, now, deadline, quit, ctxDone, inflight,
                   nAccepted, disk, resp, exit>>

\* :272 atomic.StoreInt64(&c.healthy, time.Now().UnixNano())
MainStore ==
    /\ exit = "running" /\ main_pc = "store"
    /\ healthy' = now
    /\ main_pc' = "spawn"
    /\ UNCHANGED <<sd_pc, srv, now, deadline, quit, ctxDone, inflight,
                   nAccepted, disk, resp, exit>>

\* :276 go func() { ... srv.ListenAndServe() ... }
MainSpawn ==
    /\ exit = "running" /\ main_pc = "spawn"
    /\ srv' = "spawned"
    /\ main_pc' = "wait"
    /\ UNCHANGED <<sd_pc, healthy, now, deadline, quit, ctxDone, inflight,
                   nAccepted, disk, resp, exit>>

\* :284-286 <-ctx.Done(), then main returns and the process exits
MainWait ==
    /\ exit = "running" /\ main_pc = "wait" /\ ctxDone
    /\ main_pc' = "returned"
    /\ exit' = "clean"
    /\ UNCHANGED <<sd_pc, srv, healthy, now, deadline, quit, ctxDone, inflight,
                   nAccepted, disk, resp>>

(***************************************************************************)
(* The goroutine of main.go:276-281.                                       *)
(***************************************************************************)
\* :278 ListenAndServe starts accepting, or returns ErrServerClosed at once
\* when Shutdown has already been called
ListenAndServe ==
    /\ exit = "running" /\ srv = "spawned"
    /\ srv' = IF inShutdown THEN "closed" ELSE "serving"
    /\ UNCHANGED <<main_pc, sd_pc, healthy, now, deadline, quit, ctxDone,
                   inflight, nAccepted, disk, resp, exit>>

\* :278-279 ListenAndServe fails to bind: logger.Fatalf
ListenFails ==
    /\ exit = "running" /\ srv = "spawned" /\ ~inShutdown
    /\ exit' = "fatal_listen"
    /\ UNCHANGED <<main_pc, sd_pc, srv, healthy, now, deadline, quit, ctxDone,
                   inflight, nAccepted, disk, resp>>

(***************************************************************************)
(* The goroutine of controller.shutdown, main.go:198-215.                  *)
(***************************************************************************)
\* SIGINT or SIGTERM arrives while quit is registered and empty
Signal ==
    /\ exit = "running" /\ sd_pc = "waitSig" /\ quit = "empty"
    /\ quit' = "queued"
    /\ UNCHANGED <<main_pc, sd_pc, srv, healthy, now, deadline, ctxDone,
                   inflight, nAccepted, disk, resp, exit>>

\* :201-203 <-quit; signal.Stop(quit); close(quit)
SdRecv ==
    /\ exit = "running" /\ sd_pc = "waitSig" /\ quit = "queued"
    /\ quit' = "closed"
    /\ sd_pc' = "store"
    /\ UNCHANGED <<main_pc, srv, healthy, now, deadline, ctxDone, inflight,
                   nAccepted, disk, resp, exit>>

\* :205 atomic.StoreInt64(&c.healthy, 0)
SdStore ==
    /\ exit = "running" /\ sd_pc = "store"
    /\ healthy' = 0
    /\ sd_pc' = "timer"
    /\ UNCHANGED <<main_pc, srv, now, deadline, quit, ctxDone, inflight,
                   nAccepted, disk, resp, exit>>

\* :206-211 log, context.WithTimeout(ctx, 5s), SetKeepAlivesEnabled(false)
SdTimer ==
    /\ exit = "running" /\ sd_pc = "timer"
    /\ deadline' = now + Grace
    /\ sd_pc' = "shutdown"
    /\ UNCHANGED <<main_pc, srv, healthy, now, quit, ctxDone, inflight,
                   nAccepted, disk, resp, exit>>

SdShutdown_KeepListening ==
    /\ exit = "running" /\ sd_pc = "shutdown"
    /\ sd_pc' = "poll"
    /\ UNCHANGED <<main_pc, srv, healthy, now, deadline, quit, ctxDone, inflight,
                   nAccepted, disk, resp, exit>>

\* :212 server.Shutdown(ctx) is entered: the listener is closed
SdShutdown ==
    /\ exit = "running" /\ sd_pc = "shutdown"
    /\ srv' = IF srv = "serving" THEN "closed" ELSE srv
    /\ sd_pc' = "poll"
    /\ UNCHANGED <<main_pc, healthy, now, deadline, quit, ctxDone, inflight,
                   nAccepted, disk, resp, exit>>

\* server.Shutdown polls: with no connection busy it returns nil, the
\* deferred done() cancels the context (:199); otherwise it waits
SdPoll ==
    /\ exit = "running" /\ sd_pc = "poll"
    /\ IF inflight = {}
       THEN sd_pc' = "done" /\ ctxDone' = TRUE
       ELSE sd_pc' = "wait" /\ UNCHANGED ctxDone
    /\ UNCHANGED <<main_pc, srv, healthy, now, deadline, quit, inflight,
                   nAccepted, disk, resp, exit>>

\* server.Shutdown's poll timer fires before the deadline: poll again
SdRepoll ==
    /\ exit = "running" /\ sd_pc = "wait" /\ now < deadline
    /\ sd_pc' = "poll"
    /\ UNCHANGED <<main_pc, srv, healthy, now, deadline, quit, ctxDone, inflight,
                   nAccepted, disk, resp, exit>>

SdTimeout_KeepWaiting ==
    /\ exit = "running" /\ sd_pc = "wait" /\ now >= deadline
    /\ UNCHANGED vars

\* :212-213 the context expires while Shutdown waits: it returns the
\* context's error and ErrorLog.Fatalf ends the process
SdTimeout ==
    /\ exit = "running" /\ sd_pc = "wait" /\ now >= deadline
    /\ sd_pc' = "fatal"
    /\ exit' = "fatal_shutdown"
    /\ UNCHANGED <<main_pc, srv, healthy, now, deadline, quit, ctxDone, inflight,
                   nAccepted, disk, resp>>

(***************************************************************************)
(* Time.  A tick is one second.  Shutdown polls more often than once a     *)
(* tick (every 500 ms at most), so no tick passes while it is polling and  *)
(* no connection is busy.                                                  *)
(***************************************************************************)
Tick ==
    /\ exit = "running" /\ sd_pc # "done"
    /\ IF deadline = 0 THEN now < MaxStart ELSE now < deadline
    /\ ~(sd_pc \in {"poll", "wait"} /\ inflight = {})
    /\ now' = now + 1
    /\ UNCHANGED <<main_pc, sd_pc, srv, healthy, deadline, quit, ctxDone,
                   inflight, nAccepted, disk, resp, exit>>

(***************************************************************************)
(* Requests.  The server runs srv.Handler (main.go:266) on a goroutine of  *)
(* its own for every accepted request.                                     *)
(***************************************************************************)
\* srv.Handler, main.go:266: (middlewares{c.tracing, c.logging}).apply(router)
SrvHandler == apply(<<"tracing", "logging">>, <<"router">>)

\* srv.Handler.ServeHTTP on a fresh response writer
Handler(r, d, h, t) == ServeHTTP(SrvHandler, NewWriter, r, d, h, t)

\* the listener accepts request r
Accept(r) ==
    /\ exit = "running" /\ srv = "serving" /\ nAccepted < MaxRequests
    /\ nAccepted' = nAccepted + 1
    /\ inflight' = inflight \cup {[id |-> nAccepted + 1, req |-> r]}
    /\ UNCHANGED <<main_pc, sd_pc, srv, healthy, now, deadline, quit, ctxDone,
                   disk, resp, exit>>

\* the handler of accepted request c runs and returns
Handle(c) ==
    /\ exit = "running" /\ c \in inflight
    /\ LET out == Handler(c.req, disk, healthy, now) IN
       /\ resp' = [id |-> c.id, req |-> c.req, w |-> Finish(out.w),
                   ops |-> out.ops, h |-> out.h, log |-> out.log,
                   entered |-> out.entered]
       /\ disk' = out.disk
    /\ inflight' = inflight \ {c}
    /\ UNCHANGED <<main_pc, sd_pc, srv, healthy, now, deadline, quit, ctxDone,
                   nAccepted, exit>>

\* request r is accepted and its handler runs at once
Serve(r) ==
    /\ exit = "running" /\ srv = "serving" /\ nAccepted < MaxRequests
    /\ nAccepted' = nAccepted + 1
    /\ LET out == Handler(r, disk, healthy, now) IN
       /\ resp' = [id |-> nAccepted + 1, req |-> r, w |-> Finish(out.w),
                   ops |-> out.ops, h |-> out.h, log |-> out.log,
                   entered |-> out.entered]
       /\ disk' = out.disk
    /\ UNCHANGED <<main_pc, sd_pc, srv, healthy, now, deadline, quit, ctxDone,
                   inflight, exit>>

(***************************************************************************)
(* The whole process, driven by a few requests of each kind.               *)
(***************************************************************************)
Upload(referer, origin, formOK, parts) ==
    Request("POST", <<"upload">>, referer, origin, formOK, parts)

SiteOrigin == <<"http:", "h">>

LifecycleRequests ==
    { Get(<<"healthz">>),
      Get(<<"a.txt">>),
      Upload(SiteOrigin, SiteOrigin, TRUE, <<Part("new.txt", 1, "none")>>) }

Next ==
    \/ MainShutdown
    \/ MainStore
    \/ MainSpawn
    \/ MainWait
    \/ ListenAndServe
    \/ ListenFails
    \/ Signal
    \/ SdRecv
    \/ SdStore
    \/ SdTimer
    \/ SdShutdown
    \/ SdPoll
    \/ SdRepoll
    \/ SdTimeout
    \/ Tick
    \/ \E r \in LifecycleRequests : Accept(r)
    \/ \E c \in inflight : Handle(c)

Spec == Init /\ [][Next]_vars

\* the goroutines of main, of shutdown and of the listener are scheduled and
\* time passes; signals and requests come as the environment pleases, and a
\* handler may never return
Fairness ==
    /\ WF_vars(MainShutdown) /\ WF_vars(MainStore) /\ WF_vars(MainSpawn)
    /\ WF_vars(MainWait)
    /\ WF_vars(ListenAndServe \/ ListenFails)
    /\ WF_vars(SdRecv) /\ WF_vars(SdStore) /\ WF_vars(SdTimer)
    /\ WF_vars(SdShutdown) /\ WF_vars(SdPoll) /\ WF_vars(SdRepoll)
    /\ WF_vars(SdTimeout)
    /\ WF_vars(Tick)

FairSpec == Spec /\ Fairness

(***************************************************************************)
(* The handlers one request at a time: the server is up and serving        *)
(* (main at main.go:284, no signal yet), and one request from a wide set   *)
(* is accepted and handled.                                                *)
(***************************************************************************)
InitServing ==
    /\ main_pc = "wait"
    /\ sd_pc = "waitSig"
    /\ srv = "serving"
    /\ healthy = 1
    /\ now = 1
    /\ deadline = 0
    /\ quit = "empty"
    /\ ctxDone = FALSE
    /\ inflight = {}
    /\ nAccepted = 0
    /\ disk = InitDisk
    /\ resp = NoResp
    /\ exit = "running"

\* segments of the request paths: names on the disk, one that is not, ".."
PathSegments == {"a.txt", "sub", "etc", "passwd", "nope", ".."}

RequestPaths == UNION {[1..k -> PathSegments] : k \in 0..MaxPathLen}

IndexRequests ==
    {Request(m, p, <<>>, <<>>, FALSE, <<>>) : m \in {"GET", "CONNECT"}, p \in RequestPaths}
        \cup {Get(<<"favicon.io">>)}

NextIndex == resp.id = 0 /\ \E r \in IndexRequests : Serve(r)

SpecIndex == InitServing /\ [][NextIndex]_vars

\* file parts: a name that exists as a file, a new name, a name that is a
\* directory; sizes up to one above the limit; each fault
FileParts ==
    {Part(nm, sz, f) : nm \in {"a.txt", "new.txt", "sub"},
                       sz \in 1..(MaxUploadSize + 1),
                       f \in {"none", "open", "copy"}}

PartLists == UNION {[1..k -> FileParts] : k \in 0..MaxParts}

\* referring page and Origin header: the root page, a subdirectory, a
\* directory that does not exist, and a request without Origin header
RefererOrigins ==
    { <<SiteOrigin, SiteOrigin>>,
      <<SiteOrigin \o <<"sub">>, SiteOrigin>>,
      <<SiteOrigin \o <<"nodir">>, SiteOrigin>>,
      <<SiteOrigin \o <<"sub">>, <<>> >> }

UploadRequests ==
    {Upload(ro[1], ro[2], TRUE, ps) : ro \in RefererOrigins, ps \in PartLists}
        \cup {Upload(SiteOrigin, SiteOrigin, FALSE, <<>>)}

NextUpload == resp.id = 0 /\ \E r \in UploadRequests : Serve(r)

SpecUpload == InitServing /\ [][NextUpload]_vars

(***************************************************************************)
(* The composed pipeline: the server is up and serving, the clock runs,    *)
(* and requests of every route, with and without an X-Request-Id header,   *)
(* are accepted and handled one after the other.                           *)
(***************************************************************************)
\* the clock of the process
ClockTick ==
    /\ now < MaxClock
    /\ now' = now + 1
    /\ UNCHANGED <<main_pc, sd_pc, srv, healthy, deadline, quit, ctxDone,
                   inflight, nAccepted, disk, resp, exit>>

\* X-Request-Id headers of requests: absent, or set by the client
InboundIDs == {<<>>, <<"r", "7">>}

PipelineRequests ==
    {WithRequestID(r, id) :
        r \in { Get(<<"healthz">>), Get(<<"a.txt">>), Get(<<"sub">>), Get(<<"nope">>),
                Upload(SiteOrigin, SiteOrigin, TRUE, <<Part("new.txt", 1, "none")>>),
                Upload(SiteOrigin, SiteOrigin, TRUE,
                       <<Part("new.txt", MaxUploadSize + 1, "none")>>),
                Upload(SiteOrigin, SiteOrigin, FALSE, <<>>) },
        id \in InboundIDs}

NextPipeline ==
    \/ ClockTick
    \/ \E r \in PipelineRequests : Serve(r)

SpecPipeline == InitServing /\ [][NextPipeline]_vars

(***************************************************************************)
(* formatBytes over the int64 range: the root holds a file of any size     *)
(* from a set that has the unit boundaries and math.MaxInt64, and the      *)
(* listing of the root shows its size label.                               *)
(***************************************************************************)
\* digits of the byte counts: the least, the greatest, and one next to zero
DigitValues == {0, 1, 999}

ByteCounts ==
    {b \in UNION {[1..k -> DigitValues] : k \in 1..Len(MaxInt64)} :
        (Len(b) = 1 \/ b[Len(b)] # 0) /\ Leq64(b, MaxInt64)}
      \cup {MaxInt64}

SizedFile == RootDir \o <<"a.txt">>

InitFormat ==
    /\ main_pc = "wait"
    /\ sd_pc = "waitSig"
    /\ srv = "serving"
    /\ healthy = 1
    /\ now = 1
    /\ deadline = 0
    /\ quit = "empty"
    /\ ctxDone = FALSE
    /\ inflight = {}
    /\ nAccepted = 0
    /\ \E b \in ByteCounts :
          disk = (SizedFile :> [kind |-> "file", size |-> b, data |-> "a"]) @@ InitDisk
    /\ resp = NoResp
    /\ exit = "running"

NextFormat == resp.id = 0 /\ Serve(Get(<<>>))

SpecFormat == InitFormat /\ [][NextFormat]_vars

(***************************************************************************)
(* Properties.                                                             *)
(***************************************************************************)
\* the step is the return of a handler: resp records a new request
Handled == resp'.id # resp.id

\* the last handled request went to the given handler
Last(kind) == resp.id # 0 /\ Route(resp.req) = kind

BodyKinds(w) == {w.body[i].t : i \in 1..Len(w.body)}

\* C1: once the termination signal has reached the shutdown goroutine, every
\* /healthz request handled from then on is answered 503.  Stated in the form
\* most favourable to the code: only requests handled after the goroutine has
\* also executed its store of 0 are counted.
C1_HealthzUnavailableAfterSignal ==
    [][(Handled /\ Route(resp'.req) = "healthz" /\ sigReceived /\ resetDone)
          => resp'.w.status = 503]_vars

\* C2: healthz answers 503 with an empty body exactly when the value it
\* loaded is 0 and 200 with an uptime body exactly when it is nonzero; the
\* value it loads is the shared health value; no handler changes the health
\* value: only main's store and the shutdown goroutine's store do.
C2_HealthzReadsOnly ==
    /\ [](Last("healthz") =>
            /\ (resp.h = 0) <=> (resp.w.status = 503 /\ resp.w.body = <<>>)
            /\ (resp.h # 0) <=> (resp.w.status = 200 /\ BodyKinds(resp.w) = {"uptime"}))
    /\ [][Handled => /\ healthy' = healthy
                     /\ (Route(resp'.req) = "healthz" => resp'.h = healthy)]_vars
    /\ [][healthy' # healthy => \/ (main_pc = "store" /\ main_pc' = "spawn")
                                \/ (sd_pc = "store" /\ sd_pc' = "timer")]_vars

\* a health probe answered 200 with the uptime, and one answered 503 after
\* the reset, are both reached; the witness is the first
C2_Witness ==
    /\ Last("healthz") /\ resp.h # 0 /\ resp.w.status = 200
    /\ resp.w.body[1].n = now - healthy

\* C3: the health value becomes nonzero only once the listener accepts
\* connections; it is reset to 0 once, before server.Shutdown begins; after
\* the reset it never becomes nonzero again.
C3_HealthLifecycle ==
    [][/\ (healthy = 0 /\ healthy' # 0) => srv' = "serving"
       /\ (healthy # 0 /\ healthy' = 0) => (~resetDone /\ ~inShutdown')
       /\ resetDone => healthy' = 0]_vars

\* C4: after a termination signal the process always terminates; a clean
\* stop leaves no request unfinished; once the drain finds every request
\* finished before the deadline the stop is clean; the fatal stop happens
\* only at the deadline, and does happen when Shutdown still waits then.
C4_ShutdownTerminates ==
    /\ (quit # "empty") ~> (exit # "running")
    /\ [](exit = "clean" => (inflight = {} /\ ctxDone /\ main_pc = "returned"))
    /\ [](exit = "fatal_shutdown" => (deadline # 0 /\ now >= deadline))
    /\ (sd_pc \in {"poll", "wait"} /\ inflight = {} /\ now < deadline)
          ~> (exit = "clean")
    /\ (sd_pc = "wait" /\ now >= deadline) ~> (exit = "fatal_shutdown")

\* a clean stop after a drain during which time passed, requests having
\* been accepted and handled
C4_Witness ==
    /\ exit = "clean" /\ deadline # 0 /\ now > deadline - Grace
    /\ resp.id # 0 /\ nAccepted > 0

\* C5 as stated: no request is accepted once the shutdown goroutine has
\* received the signal.
C5_NoAcceptAfterSignal ==
    [][nAccepted' # nAccepted => ~sigReceived]_vars

\* C5 as amended: no request is accepted once server.Shutdown has been
\* entered; the process never ends with a request still in flight except by
\* the fatal stop at the deadline.
C5_NoAcceptAfterShutdown ==
    /\ [][nAccepted' # nAccepted => ~inShutdown]_vars
    /\ [](exit # "running" /\ inflight # {} =>
             (exit = "fatal_shutdown" /\ deadline # 0 /\ now >= deadline))

\* Shutdown has closed the listener with a request in flight while the
\* listener could have accepted another
C5_Witness ==
    /\ inShutdown /\ srv = "closed" /\ inflight # {} /\ nAccepted < MaxRequests
    /\ exit = "running"

\* C6: when the resolved path names a regular file (request paths without
\* ".." taken), the file is streamed and nothing else: listDir is not called
\* and the body holds the file alone.
C6_FileServedAlone ==
    (Last("index") /\ ~HasDotDot(resp.req.path)
       /\ Stat(disk, Join(RootDir, resp.req.path)).kind = "file")
    => /\ \A i \in 1..Len(resp.ops) : resp.ops[i][1] # "readdir"
       /\ resp.w.status = 200
       /\ BodyKinds(resp.w) = {"file"} /\ Len(resp.w.body) = 1

\* C7: when the resolved path does not exist the status is 404.
C7_MissingIs404 ==
    (Last("index") /\ resp.req.path # <<"favicon.io">>
       /\ Stat(disk, Join(RootDir, resp.req.path)).kind = "none")
    => resp.w.status = 404

\* C8: every path the index handler stats, opens or lists lies inside the
\* root, and a request that resolves outside the root gets 404 and neither
\* file contents nor a listing.
C8_PathSafety ==
    Last("index") =>
       /\ \A i \in 1..Len(resp.ops) : InsideRoot(resp.ops[i][2])
       /\ ~InsideRoot(Join(RootDir, resp.req.path)) =>
             (resp.w.status = 404 /\ BodyKinds(resp.w) \cap {"file", "listing"} = {})

\* part j of request r is within the limit, opens, and can be created and
\* copied to its destination
PartSucceeds(r, j) ==
    /\ r.parts[j].size <= MaxUploadSize
    /\ r.parts[j].fault = "none"
    /\ CanCreate(InitDisk, Destination(r, r.parts[j]))

\* the disk after the first n parts of r have been written, in order
RECURSIVE DiskAfter(_, _)
DiskAfter(r, n) ==
    IF n = 0 THEN InitDisk
    ELSE WriteFile(DiskAfter(r, n - 1), Destination(r, r.parts[n]),
                   FileNode(r.parts[n].size, "new"))

\* the loop of upload reaches part k of r: every part before it succeeds
Reaches(r, k) == \A j \in 1..(k - 1) : PartSucceeds(r, j)

\* C9 as stated: a request with an oversized file part (reached by the loop)
\* is answered 413 and writes nothing to disk, wherever the part stands.
C9_OversizeWritesNothing ==
    (Last("upload") /\ resp.req.formOK
       /\ \E k \in 1..Len(resp.req.parts) :
             resp.req.parts[k].size > MaxUploadSize /\ Reaches(resp.req, k))
    => (resp.w.status = 413 /\ disk = InitDisk)

\* C9 as amended: when the loop reaches an oversized part k, the answer is
\* 413 with an empty body and no redirect, no destination is opened for part
\* k or any later part, and the disk holds exactly the parts before k (so
\* nothing is written when k = 1).
C9_OversizeStopsUpload ==
    (Last("upload") /\ resp.req.formOK) =>
       \A k \in 1..Len(resp.req.parts) :
          (resp.req.parts[k].size > MaxUploadSize /\ Reaches(resp.req, k)) =>
             /\ resp.w.status = 413
             /\ resp.w.body = <<>>
             /\ resp.w.location = NewWriter.location
             /\ Len(resp.ops) = k - 1
             /\ \A j \in 1..(k - 1) :
                   resp.ops[j] = Op("create", Destination(resp.req, resp.req.parts[j]))
             /\ disk = DiskAfter(resp.req, k - 1)

\* a 413 for an oversized second part, after the first part was written
C9_Witness ==
    /\ Last("upload") /\ resp.w.status = 413
    /\ Len(resp.req.parts) >= 2 /\ Len(resp.ops) >= 1
    /\ disk # InitDisk

\* C10: when opening the uploaded part, opening the destination or copying
\* fails for part k (reached by the loop, within the limit), the status is
\* 500, no redirect is sent, no destination is opened for a later part, and
\* the parts before k stay written.
C10_UploadFailureIs500 ==
    (Last("upload") /\ resp.req.formOK) =>
       \A k \in 1..Len(resp.req.parts) :
          (/\ Reaches(resp.req, k)
           /\ resp.req.parts[k].size <= MaxUploadSize
           /\ ~PartSucceeds(resp.req, k)) =>
             /\ resp.w.status = 500
             /\ resp.w.location = NewWriter.location
             /\ Len(resp.ops) <= k
             /\ \A j \in 1..(k - 1) :
                   /\ resp.ops[j] = Op("create", Destination(resp.req, resp.req.parts[j]))
                   /\ Destination(resp.req, resp.req.parts[j]) \in DOMAIN disk

\* the path of the referring page: its URL without scheme and host
RefererPath(r) == SubSeq(r.referer, Len(SiteOrigin) + 1, Len(r.referer))

\* where the page says part j of r goes: the directory of the referring page
\* under the root, then the file name of the part
PageDestination(r, j) == RootDir \o RefererPath(r) \o <<r.parts[j].name>>

\* the last part of r that goes to the same place as part j
LastSame(r, j) ==
    CHOOSE k \in j..Len(r.parts) :
       /\ PageDestination(r, k) = PageDestination(r, j)
       /\ \A m \in (k + 1)..Len(r.parts) : PageDestination(r, m) # PageDestination(r, j)

\* the directories of a disk
Directories(d) == {p \in DOMAIN d : d[p].kind = "dir"}

\* C11: when every part of an upload is within the limit and every open and
\* copy succeeds, the response is a 302 redirect to the referring page, one
\* file per part has been created, in the order of the parts, at
\* <root>/<path of the referring page>/<file name>, each such file holds
\* what the last part of that name carried (an existing file is replaced),
\* nothing else on the disk changes and no directory is created.
C11_UploadSuccess ==
    (/\ Last("upload") /\ resp.req.formOK
     /\ \A j \in 1..Len(resp.req.parts) : PartSucceeds(resp.req, j)) =>
       /\ resp.w.status = 302
       /\ resp.w.location = resp.req.referer
       /\ Len(resp.ops) = Len(resp.req.parts)
       /\ \A j \in 1..Len(resp.req.parts) :
             /\ resp.ops[j] = Op("create", PageDestination(resp.req, j))
             /\ disk[PageDestination(resp.req, j)] =
                   FileNode(resp.req.parts[LastSame(resp.req, j)].size, "new")
       /\ \A p \in DOMAIN disk :
             (\A j \in 1..Len(resp.req.parts) : p # PageDestination(resp.req, j)) =>
                (p \in DOMAIN InitDisk /\ disk[p] = InitDisk[p])
       /\ Directories(disk) = Directories(InitDisk)

\* two parts uploaded from the root page, the second one replacing a file
\* that was there
C11_Witness ==
    /\ Last("upload") /\ resp.w.status = 302
    /\ Len(resp.req.parts) = 2
    /\ resp.ops[1] = Op("create", RootDir \o <<"new.txt">>)
    /\ resp.ops[2] = Op("create", RootDir \o <<"a.txt">>)
    /\ InitDisk[RootDir \o <<"a.txt">>].data # "new"
    /\ disk[RootDir \o <<"a.txt">>].data = "new"

\* C12: every request is answered with an HTTP status and no handler
\* panics; a request to /upload from which no multipart form could be parsed
\* is answered with an error status.
C12_ErrorsEndInStatus ==
    (resp.id # 0) =>
       /\ ~resp.w.panicked
       /\ resp.w.status # 0
       /\ (Route(resp.req) = "upload" /\ ~resp.req.formOK) => resp.w.status \in 400..599

\* C13: every response of the composed pipeline carries an X-Request-Id
\* header; it is the header of the request when that is not empty, and
\* otherwise the generated, non-empty ID of the clock reading at which the
\* request was handled; the request-ID middleware is entered before the
\* router, whatever status the router writes.
C13_RequestIDPropagation ==
    (resp.id # 0 /\ ~resp.w.panicked) =>
       /\ resp.w.status # 0
       /\ resp.w.xrid # <<>>
       /\ resp.req.reqid # <<>> => resp.w.xrid = resp.req.reqid
       /\ resp.req.reqid = <<>> =>
             \E t \in 1..now : resp.w.xrid = FormatInt36(t)
       /\ \E i, j \in 1..Len(resp.entered) :
             i < j /\ resp.entered[i] = "tracing" /\ resp.entered[j] = "router"

\* an error response to the second request, which carried its own ID
C13_Witness ==
    /\ resp.id = 2 /\ resp.w.status = 413
    /\ resp.req.reqid = <<"r", "7">> /\ resp.w.xrid = <<"r", "7">>

\* C14: two requests without X-Request-Id header never get the same
\* generated ID: the response to such a request differs in its X-Request-Id
\* from the response before it, when that was to such a request too.
C14_GeneratedIDsUnique ==
    [][(/\ Handled /\ resp.id # 0
        /\ resp.req.reqid = <<>> /\ resp'.req.reqid = <<>>
        /\ ~resp.w.panicked /\ ~resp'.w.panicked)
          => resp'.w.xrid # resp.w.xrid]_vars

\* C15: on every request the request-ID middleware is entered first, then
\* the logging middleware, then the router.
C15_TracingOutermost ==
    (resp.id # 0) => resp.entered = <<"tracing", "logging", "router">>

\* C16: for every request whose handler returns, exactly one log line is
\* printed, it names the method and the path of the request, its ID is the
\* X-Request-Id of the response as it stands when the handler has returned,
\* and it is not the placeholder "unknown".
C16_OneLogLinePerRequest ==
    (resp.id # 0 /\ ~resp.w.panicked) =>
       /\ Len(resp.log) = 1
       /\ resp.log[1].method = resp.req.method
       /\ resp.log[1].path = resp.req.path
       /\ resp.log[1].id = resp.w.xrid
       /\ resp.log[1].id # <<"unknown">>

\* the log line of a request without X-Request-Id header, handled at clock
\* reading 36, carries the generated ID of the response
C16_Witness ==
    /\ resp.id # 0 /\ resp.w.status = 200
    /\ resp.req.reqid = <<>>
    /\ resp.w.xrid = <<"1", "0">>
    /\ resp.log = <<[id |-> <<"1", "0">>, method |-> "GET", path |-> <<"healthz">>]>>

\* the immediate children of directory root on disk d
Children(d, root) ==
    {p \in DOMAIN d : p # <<>> /\ Parent(p) = root}

\* s ends with the path separator
EndsWithSeparator(s) == s # <<>> /\ s[Len(s)] = "/"

\* C17: for the directory a request names, listDir returns one entry per
\* immediate child, in the order of the directory read; the name of an
\* entry ends with the separator iff the child is a directory, its size
\* label is "-" iff the child is a directory and formatBytes of the size
\* otherwise, the link of a directory entry ends with the separator and the
\* link of a file entry is its name; when the directory cannot be read the
\* error comes with an empty entry list.
C17_ListingEntries ==
    Last("index") =>
       LET root  == Join(RootDir, resp.req.path)
           dir   == listDir(disk, root)
           names == ReadDirNames(disk, root)
       IN IF Stat(disk, root).kind = "dir"
          THEN /\ ~dir.err
               /\ Len(dir.Files) = Cardinality(Children(disk, root))
               /\ {Append(root, names[i]) : i \in 1..Len(names)} = Children(disk, root)
               /\ \A i \in 1..Len(dir.Files) :
                     LET f     == dir.Files[i]
                         child == disk[Append(root, names[i])]
                     IN /\ f.Name[1] = names[i]
                        /\ EndsWithSeparator(f.Name) <=> child.kind = "dir"
                        /\ f.Size[2] = "-" <=> child.kind = "dir"
                        /\ child.kind # "dir" => f.Size = formatBytes(child.size)
                        /\ child.kind = "dir" => EndsWithSeparator(f.Link)
                        /\ child.kind # "dir" => f.Link = f.Name
          ELSE dir.err /\ dir.Files = <<>>

\* 1000^k
Pow1000(k) == [i \in 1..(k + 1) |-> IF i = k + 1 THEN 1 ELSE 0]

\* floor(log1000(b)) for 1 <= b <= math.MaxInt64
Log1000(b) ==
    CHOOSE k \in 0..Len(MaxInt64) : Leq64(Pow1000(k), b) /\ ~Leq64(Pow1000(k + 1), b)

\* the place of the unit of a label in B, k, M, G, T, P, E
UnitRank(label) ==
    IF label[2] = "B" THEN 0
    ELSE CHOOSE i \in 1..Len(UnitLetters) : UnitLetters[i] = label[2]

\* the size label the listing of the root shows for the sized file
ListedSize == resp.w.body[1].files[1].Size

\* C18: the size label of a file of b bytes is "<b> B" when b < 1000;
\* otherwise its unit is the letter of kMGTPE at index floor(log1000(b)) - 1
\* (an index of 0..5 for every int64 b) and its divisor is 1000 to the power
\* floor(log1000(b)); and no greater byte count has a smaller unit.
C18_UnitSelection ==
    Last("index") =>
       LET b == disk[SizedFile].size IN
       /\ resp.w.body[1].files[1].Name = <<"a.txt">>
       /\ Leq64(b, Int64(999)) => ListedSize = <<b[1], "B">>
       /\ ~Leq64(b, Int64(999)) =>
             /\ Log1000(b) - 1 \in 0..5
             /\ ListedSize[2] = UnitLetters[Log1000(b)]
             /\ ListedSize[1] = <<b, Pow1000(Log1000(b))>>
       /\ \A c \in ByteCounts :
             Leq64(b, c) => UnitRank(ListedSize) <= UnitRank(formatBytes(c))

\* the label of a file of math.MaxInt64 bytes has unit E and divisor 10^18
C18_Witness ==
    /\ Last("index")
    /\ disk[SizedFile].size = MaxInt64
    /\ ListedSize = <<<<MaxInt64, <<0, 0, 0, 0, 0, 0, 1>> >>, "E">>

=============================================================================
